---- MODULE Spec2Model ----
(***************************************************************************)
(* A model of eliquious/core: the BoltDB-backed key-value abstraction      *)
(* (LeafDB, BoltKeyspace) and the authentication service built on the      *)
(* "users" keyspace (AuthResource.Bind, AuthHandler.Login / Logout,        *)
(* createDefaultUser, authenticate, getSecureCookie, SaveUser).            *)
(*                                                                         *)
(* Every bolt transaction (db.View / db.Update) is one atomic step.  A     *)
(* handler that runs two transactions (Login: Get, then SaveUser;          *)
(* createDefaultUser: Contains, then SaveUser) takes two steps, and other  *)
(* handlers may run in between.                                            *)
(*                                                                         *)
(* Two specifications share the variables:                                 *)
(*   Spec          the authentication service: Bind, Login, Logout;        *)
(*   SpecFaults    Spec with the failures Bind may meet in the storage     *)
(*                 engine and the entropy source;                          *)
(*   SpecKeyspace  a client of the KeyValueDatabase / Keyspace interfaces. *)
(***************************************************************************)
EXTENDS Integers, Sequences, FiniteSets, TLC

VARIABLES
    db,     \* the bolt file: bucket name -> bucket (key -> value); a name
            \* outside DOMAIN db has no bucket (tx.Bucket returns nil)
    bpc,    \* per Bind call: its position in AuthResource.Bind
    bret,   \* per Bind call: the error Bind returned ("pending" before)
    hpc,    \* per request: its position in the handler
    req,    \* per request: the route and the form values
    btx,    \* per Bind call: the bolt transactions it has run, in order
    luser,  \* per request: Login's local `user` (the decoded record)
    lget,   \* per request: the error of Login's a.users.Get
    lsc,    \* per request: Login's local `sc` (getSecureCookie's codec)
    htx,    \* per request: the bolt transactions it has run, in order
    resp,   \* per request: the response written so far
    handles,\* the storage client's Keyspace handles: the names for which
            \* GetOrCreateKeyspace returned a BoltKeyspace to it
    lastdb, \* the storage client's last two KeyValueDatabase calls, each
            \* with its error, the latest last
    ret     \* the storage client's call that has just returned: its
            \* arguments and everything it returned or called back, and for
            \* Insert, Update and Delete whether the key was stored when
            \* the call began

vars == <<db, bpc, bret, btx, hpc, req, luser, lget, lsc, htx, resp, handles, lastdb, ret>>

----------------------------------------------------------------------------
(* Bounds of the model *)

\* distinct values securecookie.GenerateRandomKey(32) may return
NumKeys == 2
\* distinct values GenerateSalt's random read may return
NumSalts == 2

KeyIds == 1..NumKeys
SaltIds == 1..NumSalts

\* concurrent request contexts and concurrent Bind calls
Handlers == {"h1", "h2"}
Binders == {"b1", "b2"}

----------------------------------------------------------------------------
(* Program constants *)

SaltSize == 16
Sha256Size == 32
CookieKeySize == 32
\* the key lengths aes.NewCipher accepts (securecookie.New's block cipher)
AESKeySizes == {16, 24, 32}

DEFAULT_USERNAME == "default.user@example.com"
DEFAULT_PASSWORD == "password"
UsersKeyspace == "users"

----------------------------------------------------------------------------
(* Byte strings.  <<"rand", n, i>> is the i-th value of n random bytes;    *)
(* <<"sha256", s, p>> the SHA-256 digest of s || p (injective: the digest  *)
(* is collision-resistant).                                                *)

RandomBytes(n, i) == <<"rand", n, i>>
EmptyBytes == <<"rand", 0, 0>>

Sha256(salt, secret) == <<"sha256", salt, secret>>

ByteLen(b) == IF b[1] = "sha256" THEN Sha256Size ELSE b[2]

(* Text.  <<"b64", b>> is the standard base64 encoding of the bytes b (the *)
(* empty string is the encoding of no bytes); <<"raw", i>> is a text that  *)
(* is not valid base64.                                                    *)

B64Encode(b) == <<"b64", b>>
EmptyText == B64Encode(EmptyBytes)
CorruptText == <<"raw", 1>>

B64Decode(t) ==
    IF t[1] = "b64"
    THEN [bytes |-> t[2], err |-> "nil"]
    ELSE [bytes |-> EmptyBytes, err |-> "CorruptInputError"]

----------------------------------------------------------------------------
(* BaseUser and its JSON encoding *)

ZeroUser ==
    [Username |-> "", RequestId |-> 0, PrimaryEmail |-> "",
     SaltedPassword |-> EmptyText, Salt |-> EmptyText, CookieBlock |-> EmptyText]

NilValue == <<"nil", 0>>
GarbageValue == <<"garbage", 0>>

Marshal(user) == <<"json", user>>

Unmarshal(v) ==
    IF v[1] = "json"
    THEN [user |-> v[2], err |-> "nil"]
    ELSE [user |-> ZeroUser, err |-> "SyntaxError"]

----------------------------------------------------------------------------
(* bolt buckets *)

EmptyBucket == [k \in {} |-> NilValue]
NoBuckets == [n \in {} |-> EmptyBucket]

HasBucket(d, name) == name \in DOMAIN d

PutBucket(d, name, b) ==
    [n \in (DOMAIN d) \cup {name} |-> IF n = name THEN b ELSE d[n]]

DropBucket(d, name) == [n \in (DOMAIN d) \ {name} |-> d[n]]

BucketPut(b, key, value) ==
    [k \in (DOMAIN b) \cup {key} |-> IF k = key THEN value ELSE b[k]]

BucketDelete(b, key) == [k \in (DOMAIN b) \ {key} |-> b[k]]

BucketGet(b, key) == IF key \in DOMAIN b THEN b[key] ELSE NilValue

----------------------------------------------------------------------------
(* LeafDB *)

\* GetOrCreateKeyspace that creates the bucket afresh on every call
GetOrCreateKeyspaceFresh(d, name) ==
    [db |-> PutBucket(d, name, EmptyBucket), ks |-> name, err |-> "nil"]

\* CreateBucketIfNotExists inside one read-write transaction
GetOrCreateKeyspace(d, name) ==
    [db |-> IF HasBucket(d, name) THEN d ELSE PutBucket(d, name, EmptyBucket),
     ks |-> name,
     err |-> "nil"]

\* DeleteKeyspace with the engine's error dropped
DeleteKeyspaceSilent(d, name) ==
    IF HasBucket(d, name)
    THEN [db |-> DropBucket(d, name), err |-> "nil"]
    ELSE [db |-> d, err |-> "nil"]

\* tx.DeleteBucket inside one read-write transaction
DeleteKeyspace(d, name) ==
    IF HasBucket(d, name)
    THEN [db |-> DropBucket(d, name), err |-> "nil"]
    ELSE [db |-> d, err |-> "ErrBucketNotFound"]

----------------------------------------------------------------------------
(* BoltKeyspace.  A call on a name without bucket dereferences the nil     *)
(* bucket: err is "panic".                                                 *)

KsInsert(d, name, key, value) ==
    IF ~HasBucket(d, name)
    THEN [db |-> d, err |-> "panic"]
    ELSE [db |-> PutBucket(d, name, BucketPut(d[name], key, value)), err |-> "nil"]

\* Update that refuses a key that is not stored yet
KsUpdateMustExist(d, name, key, value) ==
    IF HasBucket(d, name) /\ key \notin DOMAIN d[name]
    THEN [db |-> d, err |-> "ErrKeyNotFound"]
    ELSE KsInsert(d, name, key, value)

KsUpdate(d, name, key, value) == KsInsert(d, name, key, value)

\* Get that returns a nil value and no error for a key that is not stored
KsGetNoError(d, name, key) ==
    IF ~HasBucket(d, name)
    THEN [value |-> NilValue, err |-> "panic"]
    ELSE [value |-> BucketGet(d[name], key), err |-> "nil"]

KsGet(d, name, key) ==
    IF ~HasBucket(d, name)
    THEN [value |-> NilValue, err |-> "panic"]
    ELSE LET value == BucketGet(d[name], key)
         IN IF value = NilValue
            THEN [value |-> NilValue, err |-> "ErrKeyNotFound"]
            ELSE [value |-> value, err |-> "nil"]

KsContains(d, name, key) ==
    IF ~HasBucket(d, name)
    THEN [exists |-> FALSE, err |-> "panic"]
    ELSE [exists |-> BucketGet(d[name], key) # NilValue, err |-> "nil"]

\* Delete that reports a key that is not stored
KsDeleteMustExist(d, name, key) ==
    IF ~HasBucket(d, name)
    THEN [db |-> d, err |-> "panic"]
    ELSE IF key \notin DOMAIN d[name]
    THEN [db |-> d, err |-> "ErrKeyNotFound"]
    ELSE [db |-> PutBucket(d, name, BucketDelete(d[name], key)), err |-> "nil"]

\* bucket.Delete of a key that is not stored returns nil
KsDelete(d, name, key) ==
    IF ~HasBucket(d, name)
    THEN [db |-> d, err |-> "panic"]
    ELSE [db |-> PutBucket(d, name, BucketDelete(d[name], key)), err |-> "nil"]

\* bucket.Stats().KeyN
KsSize(d, name) ==
    IF ~HasBucket(d, name)
    THEN [size |-> 0, err |-> "panic"]
    ELSE [size |-> Cardinality(DOMAIN d[name]), err |-> "nil"]

(* Keys are byte strings, ordered bytewise (bytes.Compare, sort.Strings). *)
(* No stored key is empty: <<>> stands for the cursor's nil key.          *)

NilKey == <<>>

RECURSIVE BytesCompare(_, _)
BytesCompare(a, b) ==
    IF a = <<>> /\ b = <<>> THEN 0
    ELSE IF a = <<>> THEN -1
    ELSE IF b = <<>> THEN 1
    ELSE IF a[1] < b[1] THEN -1
    ELSE IF a[1] > b[1] THEN 1
    ELSE BytesCompare(Tail(a), Tail(b))

RECURSIVE SortedInsert(_, _)
SortedInsert(x, q) ==
    IF q = <<>> THEN <<x>>
    ELSE IF BytesCompare(x, q[1]) <= 0 THEN <<x>> \o q
    ELSE <<q[1]>> \o SortedInsert(x, Tail(q))

\* List with the sort left out
SortStringsSkipped(keys) == keys

RECURSIVE SortStrings(_)
SortStrings(keys) ==
    IF keys = <<>> THEN <<>> ELSE SortedInsert(keys[1], SortStrings(Tail(keys)))

\* the least key of a non-empty set of keys
LeastKey(S) == CHOOSE m \in S : \A x \in S : BytesCompare(m, x) <= 0

\* c.Seek(key): the first stored key at or after key, or nil
CursorSeek(b, key) ==
    LET S == {k \in DOMAIN b : BytesCompare(key, k) <= 0}
    IN IF S = {} THEN NilKey ELSE LeastKey(S)

\* c.Next() from the stored key k: the next stored key, or nil
CursorNext(b, k) ==
    LET S == {x \in DOMAIN b : BytesCompare(k, x) < 0}
    IN IF S = {} THEN NilKey ELSE LeastKey(S)

\* List's loop from cursor position k: the callback invocations, in order
RECURSIVE ListScan(_, _, _, _)
ListScan(b, k, last, lookup) ==
    IF k = NilKey \/ BytesCompare(k, last) > 0
    THEN <<>>
    ELSE (IF k \in lookup THEN <<(<<k, b[k]>>)>> ELSE <<>>)
         \o ListScan(b, CursorNext(b, k), last, lookup)

\* List that opens its transaction before it looks at the key list
KsListChecksLate(d, name, keys) ==
    IF ~HasBucket(d, name)
    THEN [calls |-> <<>>, err |-> "panic", tx |-> <<"View">>]
    ELSE IF Len(keys) = 0
    THEN [calls |-> <<>>, err |-> "ErrEmptyKeyList", tx |-> <<"View">>]
    ELSE LET sorted == SortStrings(keys)
             lookup == {sorted[i] : i \in DOMAIN sorted}
         IN [calls |-> ListScan(d[name], CursorSeek(d[name], sorted[1]),
                                sorted[Len(sorted)], lookup),
             err |-> "nil", tx |-> <<"View">>]

KsList(d, name, keys) ==
    IF Len(keys) = 0
    THEN [calls |-> <<>>, err |-> "ErrEmptyKeyList", tx |-> <<>>]
    ELSE LET sorted == SortStrings(keys)
             lookup == {sorted[i] : i \in DOMAIN sorted}
         IN IF ~HasBucket(d, name)
            THEN [calls |-> <<>>, err |-> "panic", tx |-> <<"View">>]
            ELSE [calls |-> ListScan(d[name], CursorSeek(d[name], sorted[1]),
                                     sorted[Len(sorted)], lookup),
                  err |-> "nil", tx |-> <<"View">>]

\* bucket.ForEach from cursor position k; the handler `each` returns an
\* error for the key failAt
RECURSIVE ForEachScan(_, _, _)
ForEachScan(b, k, failAt) ==
    IF k = NilKey THEN [calls |-> <<>>, err |-> "nil"]
    ELSE IF k = failAt THEN [calls |-> <<(<<k, b[k]>>)>>, err |-> "HandlerError"]
    ELSE LET rest == ForEachScan(b, CursorNext(b, k), failAt)
         IN [calls |-> <<(<<k, b[k]>>)>> \o rest.calls, err |-> rest.err]

KsForEach(d, name, failAt) ==
    IF ~HasBucket(d, name)
    THEN [calls |-> <<>>, err |-> "panic"]
    ELSE ForEachScan(d[name], CursorSeek(d[name], NilKey), failAt)

----------------------------------------------------------------------------
(* utils.go *)

\* i is the outcome of the random read
GenerateSalt(secret, i) ==
    LET buf == RandomBytes(SaltSize, i)
    IN [salt |-> buf, saltedpw |-> Sha256(buf, secret), err |-> "nil"]

\* SecureCompare with the content comparison dropped
SecureCompareLengthOnly(given, actual) == ByteLen(given) = ByteLen(actual)

SecureCompare(given, actual) ==
    IF ByteLen(given) = ByteLen(actual)
    THEN given = actual
    ELSE FALSE

\* authenticate with the salt's decoding error taken for success
authenticateBadSaltAccepted(user, password) ==
    LET combined == B64Decode(user.SaltedPassword)
        salt == B64Decode(user.Salt)
    IN IF combined.err # "nil" THEN FALSE
       ELSE IF salt.err # "nil" THEN TRUE
       ELSE SecureCompare(Sha256(salt.bytes, password), combined.bytes)

authenticate(user, password) ==
    LET combined == B64Decode(user.SaltedPassword)
        salt == B64Decode(user.Salt)
    IN IF combined.err # "nil" THEN FALSE
       ELSE IF salt.err # "nil" THEN FALSE
       ELSE SecureCompare(Sha256(salt.bytes, password), combined.bytes)

\* SaveUser that keeps a stored record which already has a cookie block
SaveUserKeepsCookieBlock(user, d) ==
    LET newuser == Marshal(user)
        g == KsGet(d, UsersKeyspace, user.Username)
        r == KsUpdate(d, UsersKeyspace, user.Username, newuser)
    IN IF g.err = "nil" /\ Unmarshal(g.value).user.CookieBlock # EmptyText
       THEN [db |-> d, err |-> "nil"]
       ELSE [db |-> r.db, err |-> r.err]

SaveUser(user, d) ==
    LET newuser == Marshal(user)
        r == KsUpdate(d, UsersKeyspace, user.Username, newuser)
    IN [db |-> r.db, err |-> r.err]

\* the record createDefaultUser builds; s and k are the random draws
DefaultUser(s, k) ==
    LET g == GenerateSalt(DEFAULT_PASSWORD, s)
    IN [Username |-> DEFAULT_USERNAME,
        RequestId |-> 0,
        PrimaryEmail |-> DEFAULT_USERNAME,
        SaltedPassword |-> B64Encode(g.saltedpw),
        Salt |-> B64Encode(g.salt),
        CookieBlock |-> B64Encode(RandomBytes(CookieKeySize, k))]

----------------------------------------------------------------------------
(* securecookie and the session cookies *)

\* securecookie.New(CookieHashKey, blockKey): the codec carries an error
\* when aes.NewCipher rejects the block key
SecureCookieNew(blockKey) ==
    [blockKey |-> blockKey, ok |-> ByteLen(blockKey) \in AESKeySizes]

\* sc.Encode("session", value)
Encode(sc, value) ==
    IF sc.ok
    THEN [encoded |-> <<"sealed", sc.blockKey, value>>, err |-> "nil"]
    ELSE [encoded |-> <<"plain", "">>, err |-> "usageError"]

Plain(s) == <<"plain", s>>

Cookie(name, value, httpOnly, maxAge) ==
    [Name |-> name, Value |-> value, HttpOnly |-> httpOnly, MaxAge |-> maxAge]

setSession(user, sc) ==
    LET value == <<user.Username, user.RequestId>>
        e == Encode(sc, value)
    IN (IF e.err = "nil"
        THEN <<Cookie("session", e.encoded, TRUE, 0)>>
        ELSE <<>>)
       \o <<Cookie("part-of-the-club", Plain("true"), FALSE, 0)>>

\* clearSession that leaves the indicator cookie's MaxAge unset
clearSessionIndicatorKept ==
    <<Cookie("session", Plain(""), TRUE, -1),
      Cookie("part-of-the-club", Plain("false"), FALSE, 0)>>

clearSession ==
    <<Cookie("session", Plain(""), TRUE, -1),
      Cookie("part-of-the-club", Plain("false"), FALSE, -1)>>

NoCodec == [blockKey |-> EmptyBytes, ok |-> FALSE]

\* getSecureCookie that generates and saves a key whatever the record holds
getSecureCookieAlwaysNew(user, d, k) ==
    LET blockKey == RandomBytes(CookieKeySize, k)
        u == [user EXCEPT !.CookieBlock = B64Encode(blockKey)]
        s == KsUpdate(d, UsersKeyspace, u.Username, Marshal(u))
    IN [sc |-> SecureCookieNew(blockKey), err |-> s.err, db |-> s.db,
        tx |-> <<"Update">>]

\* k is the outcome of securecookie.GenerateRandomKey(32); tx lists the
\* transactions the call runs
getSecureCookie(user, d, k) ==
    IF user.CookieBlock = EmptyText
    THEN LET blockKey == RandomBytes(CookieKeySize, k)
             u == [user EXCEPT !.CookieBlock = B64Encode(blockKey)]
             s == SaveUser(u, d)
         IN IF s.err # "nil"
            THEN [sc |-> NoCodec, err |-> s.err, db |-> s.db, tx |-> <<"Update">>]
            ELSE [sc |-> SecureCookieNew(blockKey), err |-> "nil", db |-> s.db,
                  tx |-> <<"Update">>]
    ELSE LET dec == B64Decode(user.CookieBlock)
         IN IF dec.err # "nil"
            THEN [sc |-> NoCodec, err |-> dec.err, db |-> d, tx |-> <<>>]
            ELSE [sc |-> SecureCookieNew(dec.bytes), err |-> "nil", db |-> d,
                  tx |-> <<>>]

----------------------------------------------------------------------------
(* The authentication service: inputs and initial states *)

\* the form values a client may post
Usernames == {"", DEFAULT_USERNAME, "alice", "nobody"}
Passwords == {"", DEFAULT_PASSWORD, "p@ss"}

\* the password an account was created with
AccountPassword(username) ==
    IF username = DEFAULT_USERNAME THEN DEFAULT_PASSWORD ELSE "p@ss"

\* a record as the creation path builds it (createDefaultUser's
\* construction, for any username); cookieBlock is "" when the key is
\* left to the first login
NewAccount(username, password, s, cookieBlock) ==
    LET g == GenerateSalt(password, s)
    IN [Username |-> username,
        RequestId |-> 0,
        PrimaryEmail |-> username,
        SaltedPassword |-> B64Encode(g.saltedpw),
        Salt |-> B64Encode(g.salt),
        CookieBlock |-> cookieBlock]

\* what the file may hold under "alice" when the process starts: nothing,
\* a record with the cookie key unset, set, set to a key of a length AES
\* rejects, or not base64; a record with a salt that is not base64; bytes
\* that are not JSON
AliceValues ==
    {Marshal(NewAccount("alice", AccountPassword("alice"), 1, cb)) :
        cb \in {EmptyText,
                B64Encode(RandomBytes(CookieKeySize, 1)),
                B64Encode(RandomBytes(5, 1)),
                CorruptText}}
    \cup {Marshal([NewAccount("alice", AccountPassword("alice"), 1, EmptyText)
                      EXCEPT !.Salt = CorruptText]),
          GarbageValue}

\* the "users" bucket left by earlier runs of the process
InitUsers ==
    LET defaults == {EmptyBucket,
                     BucketPut(EmptyBucket, DEFAULT_USERNAME,
                               Marshal(DefaultUser(1, 1)))}
    IN defaults \cup {BucketPut(b, "alice", v) : b \in defaults, v \in AliceValues}

NoRequest == [route |-> "none", username |-> "", password |-> ""]
NoResponse == [status |-> 0, body |-> "", cookies |-> <<>>]
NoResult ==
    [op |-> "none", name |-> "", keys |-> <<>>, value |-> NilValue, err |-> "nil",
     exists |-> FALSE, size |-> 0, calls |-> <<>>, tx |-> <<>>, stored |-> FALSE]

Init ==
    /\ db \in {NoBuckets} \cup {PutBucket(NoBuckets, UsersKeyspace, b) : b \in InitUsers}
    /\ bpc = [b \in Binders |-> "start"]
    /\ bret = [b \in Binders |-> "pending"]
    /\ btx = [b \in Binders |-> <<>>]
    /\ hpc = [h \in Handlers |-> "idle"]
    /\ req = [h \in Handlers |-> NoRequest]
    /\ luser = [h \in Handlers |-> ZeroUser]
    /\ lget = [h \in Handlers |-> "none"]
    /\ lsc = [h \in Handlers |-> NoCodec]
    /\ htx = [h \in Handlers |-> <<>>]
    /\ resp = [h \in Handlers |-> NoResponse]
    /\ handles = {}
    /\ lastdb = <<>>
    /\ ret = NoResult

----------------------------------------------------------------------------
(* AuthResource.Bind: GetOrCreateKeyspace, createDefaultUser (Contains,    *)
(* then SaveUser), then the routes.                                        *)

BindKeyspace(b) ==
    /\ bpc[b] = "start"
    /\ LET r == GetOrCreateKeyspace(db, UsersKeyspace)
       IN /\ db' = r.db
          /\ bpc' = [bpc EXCEPT ![b] = IF r.err # "nil" THEN "failed" ELSE "contains"]
          /\ bret' = [bret EXCEPT ![b] = IF r.err # "nil" THEN r.err ELSE "pending"]
    /\ btx' = [btx EXCEPT ![b] = Append(@, "Update")]
    /\ UNCHANGED <<hpc, req, luser, lget, lsc, htx, resp, handles, lastdb, ret>>

\* createDefaultUser with the existence check's result ignored
createDefaultUserCheckIgnored(d) ==
    LET c == KsContains(d, UsersKeyspace, DEFAULT_USERNAME)
    IN IF c.err # "nil" THEN [next |-> "failed", err |-> c.err]
       ELSE [next |-> "save", err |-> "pending"]

\* createDefaultUser up to its return or its SaveUser
createDefaultUserCheck(d) ==
    LET c == KsContains(d, UsersKeyspace, DEFAULT_USERNAME)
    IN IF c.err # "nil" THEN [next |-> "failed", err |-> c.err]
       ELSE IF c.exists THEN [next |-> "bound", err |-> "nil"]
       ELSE [next |-> "save", err |-> "pending"]

BindContains(b) ==
    /\ bpc[b] = "contains"
    /\ LET c == createDefaultUserCheck(db)
       IN /\ bpc' = [bpc EXCEPT ![b] = c.next]
          /\ bret' = [bret EXCEPT ![b] = c.err]
    /\ btx' = [btx EXCEPT ![b] = Append(@, "View")]
    /\ UNCHANGED <<db, hpc, req, luser, lget, lsc, htx, resp, handles, lastdb, ret>>

\* createDefaultUser from GenerateSalt to its return
createDefaultUserSave(d, s, k) == SaveUser(DefaultUser(s, k), d)

BindSave(b) ==
    /\ bpc[b] = "save"
    /\ \E s \in SaltIds, k \in KeyIds :
        LET r == createDefaultUserSave(db, s, k)
        IN /\ db' = r.db
           /\ bpc' = [bpc EXCEPT ![b] = IF r.err # "nil" THEN "failed" ELSE "bound"]
           /\ bret' = [bret EXCEPT ![b] = r.err]
    /\ btx' = [btx EXCEPT ![b] = Append(@, "Update")]
    /\ UNCHANGED <<hpc, req, luser, lget, lsc, htx, resp, handles, lastdb, ret>>

\* the routes registered as soon as the users keyspace is connected
RoutesRegisteredEarly == \E b \in Binders : bpc[b] \notin {"start", "failed"}

\* the login and logout routes exist once a Bind call has returned nil
RoutesRegistered == \E b \in Binders : bpc[b] = "bound"

----------------------------------------------------------------------------
(* AuthHandler.Login and AuthHandler.Logout *)

Reply(status, body, cookies) == [status |-> status, body |-> body, cookies |-> cookies]

Returned(user, get, sc, r, d, tx) ==
    [next |-> "done", user |-> user, get |-> get, sc |-> sc, resp |-> r,
     db |-> d, tx |-> tx]

\* Login with the call of authenticate left out
LoginRequestAnyPassword(username, password, d) ==
    IF username # "" /\ password # ""
    THEN LET g == KsGet(d, UsersKeyspace, username)
             j == Unmarshal(g.value)
         IN IF g.err # "nil" \/ j.err # "nil"
            THEN Returned(j.user, g.err, NoCodec,
                          Reply(500, "Error retreiving user", <<>>), d, <<"View">>)
            ELSE IF j.user.CookieBlock = EmptyText
            THEN [next |-> "save", user |-> j.user, get |-> g.err,
                  sc |-> NoCodec, resp |-> NoResponse, db |-> d,
                  tx |-> <<"View">>]
            ELSE LET c == getSecureCookie(j.user, d, 1)
                 IN IF c.err # "nil"
                    THEN Returned(j.user, g.err, c.sc,
                                  Reply(500, "Internal Server Error", <<>>),
                                  c.db, <<"View">> \o c.tx)
                    ELSE Returned(j.user, g.err, c.sc,
                                  Reply(302, "/", setSession(j.user, c.sc)),
                                  c.db, <<"View">> \o c.tx)
    ELSE Returned(ZeroUser, "none", NoCodec,
                  Reply(401, "Invalid username or password", <<>>), d, <<>>)

\* Login from the form values to its response, or to getSecureCookie's
\* SaveUser when the record has no cookie block yet
LoginRequest(username, password, d) ==
    IF username # "" /\ password # ""
    THEN LET g == KsGet(d, UsersKeyspace, username)
         IN IF g.err = "panic"
            THEN Returned(ZeroUser, g.err, NoCodec, Reply(0, "panic", <<>>), d, <<"View">>)
            ELSE IF g.err # "nil"
            THEN Returned(ZeroUser, g.err, NoCodec,
                          Reply(500, "Error retreiving user", <<>>), d, <<"View">>)
            ELSE IF g.value = NilValue
            THEN Returned(ZeroUser, g.err, NoCodec,
                          Reply(401, "Invalid username or password", <<>>), d, <<"View">>)
            ELSE LET j == Unmarshal(g.value)
                 IN IF j.err # "nil"
                    THEN Returned(j.user, g.err, NoCodec,
                                  Reply(500, "Error retreiving user", <<>>), d, <<"View">>)
                    ELSE IF ~authenticate(j.user, password)
                    THEN Returned(j.user, g.err, NoCodec,
                                  Reply(401, "Invalid username or password", <<>>),
                                  d, <<"View">>)
                    ELSE IF j.user.CookieBlock = EmptyText
                    THEN [next |-> "save", user |-> j.user, get |-> g.err,
                          sc |-> NoCodec, resp |-> NoResponse, db |-> d,
                          tx |-> <<"View">>]
                    ELSE LET c == getSecureCookie(j.user, d, 1)
                         IN IF c.err # "nil"
                            THEN Returned(j.user, g.err, c.sc,
                                          Reply(500, "Internal Server Error", <<>>),
                                          c.db, <<"View">> \o c.tx)
                            ELSE Returned(j.user, g.err, c.sc,
                                          Reply(302, "/", setSession(j.user, c.sc)),
                                          c.db, <<"View">> \o c.tx)
    ELSE Returned(ZeroUser, "none", NoCodec,
                  Reply(401, "Invalid username or password", <<>>), d, <<>>)

Login(h) ==
    /\ hpc[h] = "idle"
    /\ RoutesRegistered
    /\ \E username \in Usernames, password \in Passwords :
        LET r == LoginRequest(username, password, db)
        IN /\ req' = [req EXCEPT ![h] = [route |-> "login", username |-> username,
                                         password |-> password]]
           /\ hpc' = [hpc EXCEPT ![h] = r.next]
           /\ luser' = [luser EXCEPT ![h] = r.user]
           /\ lget' = [lget EXCEPT ![h] = r.get]
           /\ lsc' = [lsc EXCEPT ![h] = r.sc]
           /\ htx' = [htx EXCEPT ![h] = r.tx]
           /\ resp' = [resp EXCEPT ![h] = r.resp]
           /\ db' = r.db
    /\ UNCHANGED <<bpc, bret, btx, handles, lastdb, ret>>

\* Login from getSecureCookie's key generation and SaveUser to the response
LoginSave(h) ==
    /\ hpc[h] = "save"
    /\ \E k \in KeyIds :
        LET c == getSecureCookie(luser[h], db, k)
        IN /\ db' = c.db
           /\ lsc' = [lsc EXCEPT ![h] = c.sc]
           /\ htx' = [htx EXCEPT ![h] = @ \o c.tx]
           /\ resp' = [resp EXCEPT ![h] =
                        IF c.err # "nil"
                        THEN Reply(500, "Internal Server Error", <<>>)
                        ELSE Reply(302, "/", setSession(luser[h], c.sc))]
    /\ hpc' = [hpc EXCEPT ![h] = "done"]
    /\ UNCHANGED <<bpc, bret, btx, req, luser, lget, handles, lastdb, ret>>

Logout(h) ==
    /\ hpc[h] = "idle"
    /\ RoutesRegistered
    /\ req' = [req EXCEPT ![h] = [route |-> "logout", username |-> "", password |-> ""]]
    /\ resp' = [resp EXCEPT ![h] = Reply(302, "/", clearSession)]
    /\ hpc' = [hpc EXCEPT ![h] = "done"]
    /\ UNCHANGED <<db, bpc, bret, btx, luser, lget, lsc, htx, handles, lastdb, ret>>

\* the request context ends; the next request starts with fresh locals
NextRequest(h) ==
    /\ hpc[h] = "done"
    /\ hpc' = [hpc EXCEPT ![h] = "idle"]
    /\ req' = [req EXCEPT ![h] = NoRequest]
    /\ luser' = [luser EXCEPT ![h] = ZeroUser]
    /\ lget' = [lget EXCEPT ![h] = "none"]
    /\ lsc' = [lsc EXCEPT ![h] = NoCodec]
    /\ htx' = [htx EXCEPT ![h] = <<>>]
    /\ resp' = [resp EXCEPT ![h] = NoResponse]
    /\ UNCHANGED <<db, bpc, bret, btx, handles, lastdb, ret>>

Next ==
    \/ \E b \in Binders : BindKeyspace(b) \/ BindContains(b) \/ BindSave(b)
    \/ \E h \in Handlers : Login(h) \/ LoginSave(h) \/ Logout(h) \/ NextRequest(h)

Spec == Init /\ [][Next]_vars

----------------------------------------------------------------------------
(* Bind where the environment fails: the engine's read-write transaction   *)
(* returns an error ("TxError") and commits nothing, or the random read of *)
(* GenerateSalt fails ("RandError").  Bind logs the error and returns it   *)
(* before the routes.                                                      *)

\* db.GetOrCreateKeyspace("users") returns an error
BindKeyspaceFails(b) ==
    /\ bpc[b] = "start"
    /\ bpc' = [bpc EXCEPT ![b] = "failed"]
    /\ bret' = [bret EXCEPT ![b] = "TxError"]
    /\ btx' = [btx EXCEPT ![b] = Append(@, "Update")]
    /\ UNCHANGED <<db, hpc, req, luser, lget, lsc, htx, resp, handles, lastdb, ret>>

\* createDefaultUser returns the error of GenerateSalt (before any
\* transaction) or of SaveUser (its transaction rolled back)
BindSaveFails(b) ==
    /\ bpc[b] = "save"
    /\ \E e \in {"RandError", "TxError"} :
        /\ bret' = [bret EXCEPT ![b] = e]
        /\ btx' = [btx EXCEPT ![b] = IF e = "TxError" THEN Append(@, "Update") ELSE @]
    /\ bpc' = [bpc EXCEPT ![b] = "failed"]
    /\ UNCHANGED <<db, hpc, req, luser, lget, lsc, htx, resp, handles, lastdb, ret>>

NextFaults ==
    \/ Next
    \/ \E b \in Binders : BindKeyspaceFails(b) \/ BindSaveFails(b)

SpecFaults == Init /\ [][NextFaults]_vars

----------------------------------------------------------------------------
(* A client of the storage interfaces.  It makes one call at a time; each  *)
(* call is one bolt transaction.  ret holds the call that has just         *)
(* returned until the client goes on.                                      *)

\* the most entries the database holds, over all keyspaces
MaxEntries == 2
\* the longest key list passed to List
MaxListLen == 2

KsNames == {"stories", "tasks"}
KsKeys == {<<1>>, <<1, 1>>, <<2>>}
KsValues == {<<"bytes", 1>>, <<"bytes", 2>>}

RECURSIVE SeqsUpTo(_, _)
SeqsUpTo(S, n) ==
    IF n = 0 THEN {<<>>}
    ELSE LET shorter == SeqsUpTo(S, n - 1)
         IN shorter \cup {Append(q, x) : q \in shorter, x \in S}

KeyLists == SeqsUpTo(KsKeys, MaxListLen)

RECURSIVE SumOver(_, _)
SumOver(S, d) ==
    IF S = {} THEN 0
    ELSE LET n == CHOOSE x \in S : TRUE
         IN Cardinality(DOMAIN d[n]) + SumOver(S \ {n}, d)

Entries(d) == SumOver(DOMAIN d, d)

\* lastdb after one more KeyValueDatabase call
Recorded(calls, op, name, err) ==
    LET c == [op |-> op, name |-> name, err |-> err]
    IN IF Len(calls) < 2 THEN Append(calls, c) ELSE Append(Tail(calls), c)

Result(op, name, keys, value, err, exists, size, calls, tx) ==
    [op |-> op, name |-> name, keys |-> keys, value |-> value, err |-> err,
     exists |-> exists, size |-> size, calls |-> calls, tx |-> tx,
     stored |-> FALSE]

\* whether key is stored in the partition name
Stored(d, name, key) == HasBucket(d, name) /\ key \in DOMAIN d[name]

InitKeyspace ==
    /\ db = NoBuckets
    /\ bpc = [b \in Binders |-> "start"]
    /\ bret = [b \in Binders |-> "pending"]
    /\ btx = [b \in Binders |-> <<>>]
    /\ hpc = [h \in Handlers |-> "idle"]
    /\ req = [h \in Handlers |-> NoRequest]
    /\ luser = [h \in Handlers |-> ZeroUser]
    /\ lget = [h \in Handlers |-> "none"]
    /\ lsc = [h \in Handlers |-> NoCodec]
    /\ htx = [h \in Handlers |-> <<>>]
    /\ resp = [h \in Handlers |-> NoResponse]
    /\ handles = {}
    /\ lastdb = <<>>
    /\ ret = NoResult

AuthVars == <<bpc, bret, btx, hpc, req, luser, lget, lsc, htx, resp>>

ClientGetOrCreateKeyspace(name) ==
    /\ ret = NoResult
    /\ LET r == GetOrCreateKeyspace(db, name)
       IN /\ db' = r.db
          /\ handles' = handles \cup {r.ks}
          /\ lastdb' = Recorded(lastdb, "GetOrCreateKeyspace", name, r.err)
          /\ ret' = Result("GetOrCreateKeyspace", name, <<>>, NilValue, r.err,
                           FALSE, 0, <<>>, <<"Update">>)
    /\ UNCHANGED AuthVars

ClientDeleteKeyspace(name) ==
    /\ ret = NoResult
    /\ LET r == DeleteKeyspace(db, name)
       IN /\ db' = r.db
          /\ lastdb' = Recorded(lastdb, "DeleteKeyspace", name, r.err)
          /\ ret' = Result("DeleteKeyspace", name, <<>>, NilValue, r.err,
                           FALSE, 0, <<>>, <<"Update">>)
    /\ UNCHANGED <<handles, AuthVars>>

ClientInsert(name, key, value) ==
    /\ ret = NoResult
    /\ name \in handles
    /\ Entries(db) < MaxEntries \/ Stored(db, name, key)
    /\ LET r == KsInsert(db, name, key, value)
       IN /\ db' = r.db
          /\ ret' = [Result("Insert", name, <<key>>, value, r.err, FALSE, 0, <<>>,
                            <<"Update">>) EXCEPT !.stored = Stored(db, name, key)]
    /\ UNCHANGED <<handles, lastdb, AuthVars>>

ClientUpdate(name, key, value) ==
    /\ ret = NoResult
    /\ name \in handles
    /\ Entries(db) < MaxEntries \/ Stored(db, name, key)
    /\ LET r == KsUpdate(db, name, key, value)
       IN /\ db' = r.db
          /\ ret' = [Result("Update", name, <<key>>, value, r.err, FALSE, 0, <<>>,
                            <<"Update">>) EXCEPT !.stored = Stored(db, name, key)]
    /\ UNCHANGED <<handles, lastdb, AuthVars>>

ClientGet(name, key) ==
    /\ ret = NoResult
    /\ name \in handles
    /\ LET r == KsGet(db, name, key)
       IN ret' = Result("Get", name, <<key>>, r.value, r.err, FALSE, 0, <<>>,
                        <<"View">>)
    /\ UNCHANGED <<db, handles, lastdb, AuthVars>>

ClientDelete(name, key) ==
    /\ ret = NoResult
    /\ name \in handles
    /\ LET r == KsDelete(db, name, key)
       IN /\ db' = r.db
          /\ ret' = [Result("Delete", name, <<key>>, NilValue, r.err, FALSE, 0,
                            <<>>, <<"Update">>) EXCEPT !.stored = Stored(db, name, key)]
    /\ UNCHANGED <<handles, lastdb, AuthVars>>

ClientContains(name, key) ==
    /\ ret = NoResult
    /\ name \in handles
    /\ LET r == KsContains(db, name, key)
       IN ret' = Result("Contains", name, <<key>>, NilValue, r.err, r.exists, 0,
                        <<>>, <<"View">>)
    /\ UNCHANGED <<db, handles, lastdb, AuthVars>>

ClientSize(name) ==
    /\ ret = NoResult
    /\ name \in handles
    /\ LET r == KsSize(db, name)
       IN ret' = Result("Size", name, <<>>, NilValue, r.err, FALSE, r.size, <<>>,
                        <<"View">>)
    /\ UNCHANGED <<db, handles, lastdb, AuthVars>>

ClientForEach(name, failAt) ==
    /\ ret = NoResult
    /\ name \in handles
    /\ LET r == KsForEach(db, name, failAt)
       IN ret' = Result("ForEach", name, <<failAt>>, NilValue, r.err, FALSE, 0,
                        r.calls, <<"View">>)
    /\ UNCHANGED <<db, handles, lastdb, AuthVars>>

ClientList(name, keys) ==
    /\ ret = NoResult
    /\ name \in handles
    /\ LET r == KsList(db, name, keys)
       IN ret' = Result("List", name, keys, NilValue, r.err, FALSE, 0, r.calls, r.tx)
    /\ UNCHANGED <<db, handles, lastdb, AuthVars>>

\* the client goes on to its next call
ClientContinue ==
    /\ ret # NoResult
    /\ ret' = NoResult
    /\ UNCHANGED <<db, handles, lastdb, AuthVars>>

NextKeyspace ==
    \/ \E name \in KsNames : ClientGetOrCreateKeyspace(name) \/ ClientDeleteKeyspace(name)
    \/ \E name \in KsNames, key \in KsKeys, value \in KsValues :
         ClientInsert(name, key, value) \/ ClientUpdate(name, key, value)
    \/ \E name \in KsNames, key \in KsKeys :
         ClientGet(name, key) \/ ClientDelete(name, key) \/ ClientContains(name, key)
    \/ \E name \in KsNames : ClientSize(name)
    \/ \E name \in KsNames, failAt \in KsKeys \cup {NilKey} : ClientForEach(name, failAt)
    \/ \E name \in KsNames, keys \in KeyLists : ClientList(name, keys)
    \/ ClientContinue

SpecKeyspace == InitKeyspace /\ [][NextKeyspace]_vars

----------------------------------------------------------------------------
(* Properties of the authentication service (specification Spec) *)

Users(d) == IF HasBucket(d, UsersKeyspace) THEN d[UsersKeyspace] ELSE EmptyBucket

\* the usernames whose stored value decodes to a record
StoredAccounts(d) == {u \in DOMAIN Users(d) : Unmarshal(Users(d)[u]).err = "nil"}

StoredUser(d, u) == Unmarshal(Users(d)[u]).user

LoginDone(h) == hpc[h] = "done" /\ req[h].route = "login"

HasCookie(r, name) == \E i \in DOMAIN r.cookies : r.cookies[i].Name = name

CookieOf(r, name) ==
    r.cookies[CHOOSE i \in DOMAIN r.cookies : r.cookies[i].Name = name]

\* the block key a session cookie was sealed under
SessionKey(r) == CookieOf(r, "session").Value[2]

\* C1: a login for a username with no record in the users keyspace (form
\* values non-empty) is answered 401 and sets no cookie.
C1_MissingUser401 ==
    \A h \in Handlers :
        (LoginDone(h) /\ req[h].username # "" /\ req[h].password # ""
            /\ lget[h] = "ErrKeyNotFound")
        => (resp[h].status = 401 /\ resp[h].cookies = <<>>)

\* C2: once a stored record holds a non-empty cookie key, no step changes
\* that record's cookie key.
C2_CookieKeyNeverChanges ==
    [][\A u \in StoredAccounts(db) :
          StoredUser(db, u).CookieBlock # EmptyText
          => (u \in StoredAccounts(db')
              /\ StoredUser(db', u).CookieBlock = StoredUser(db, u).CookieBlock)]_vars

\* C3: the write-back of a first login is a full overwrite: after it the
\* stored cookie key is the key of the cookie this login issues, whatever
\* was stored since the login read the record.  With the witness (two first
\* logins of one account, both read with the key absent, different keys,
\* the stored key not the key of an issued cookie) this is the lost update.
C3_WriteBackOverwrites ==
    [][\A h \in Handlers :
          (hpc[h] = "save" /\ hpc'[h] = "done" /\ resp'[h].status = 302)
          => (/\ luser[h].CookieBlock = EmptyText
              /\ HasCookie(resp'[h], "session")
              /\ luser[h].Username \in StoredAccounts(db')
              /\ StoredUser(db', luser[h].Username).CookieBlock
                    = B64Encode(SessionKey(resp'[h])))]_vars

C3_LostUpdateReached ==
    \E h \in Handlers, g \in Handlers :
        /\ h # g
        /\ LoginDone(h) /\ LoginDone(g)
        /\ resp[h].status = 302 /\ resp[g].status = 302
        /\ req[h].username = req[g].username
        /\ luser[h].CookieBlock = EmptyText /\ luser[g].CookieBlock = EmptyText
        /\ htx[h] = <<"View", "Update">> /\ htx[g] = <<"View", "Update">>
        /\ HasCookie(resp[h], "session") /\ HasCookie(resp[g], "session")
        /\ SessionKey(resp[h]) # SessionKey(resp[g])
        /\ StoredUser(db, req[h].username).CookieBlock = B64Encode(SessionKey(resp[g]))
        /\ StoredUser(db, req[h].username).CookieBlock # B64Encode(SessionKey(resp[h]))

\* salt and salted hash as GenerateSalt produces them over the account's
\* password
CreatedWithPassword(user, password) ==
    \E s \in SaltIds :
        /\ user.Salt = B64Encode(GenerateSalt(password, s).salt)
        /\ user.SaltedPassword = B64Encode(GenerateSalt(password, s).saltedpw)

\* C5: for every stored record whose salt and salted hash come from
\* GenerateSalt over the account's password, authenticate accepts exactly
\* that password.
C5_AuthenticateExactlyStoredPassword ==
    \A u \in StoredAccounts(db) :
        CreatedWithPassword(StoredUser(db, u), AccountPassword(u))
        => \A p \in Passwords :
             authenticate(StoredUser(db, u), p) <=> (p = AccountPassword(u))

C5_BootstrappedAccountLoggedIn ==
    \E h \in Handlers :
        /\ LoginDone(h)
        /\ req[h].username = DEFAULT_USERNAME
        /\ req[h].password = DEFAULT_PASSWORD
        /\ resp[h].status = 302
        /\ btx["b1"] = <<"Update", "View", "Update">>
        /\ CreatedWithPassword(StoredUser(db, DEFAULT_USERNAME), DEFAULT_PASSWORD)

\* C6: a login with the correct password is answered by a redirect that
\* carries both cookies; stated here by its second half, which the first
\* implies for every redirect: no successful-login response sets only one
\* of the two, i.e. every redirect from Login carries the HTTP-only session
\* cookie and the indicator cookie part-of-the-club=true (not HTTP-only).
C6_RedirectSetsBothCookies ==
    \A h \in Handlers :
        (LoginDone(h) /\ resp[h].status = 302)
        => (/\ Len(resp[h].cookies) = 2
            /\ HasCookie(resp[h], "session")
            /\ CookieOf(resp[h], "session").HttpOnly
            /\ HasCookie(resp[h], "part-of-the-club")
            /\ CookieOf(resp[h], "part-of-the-club").Value = Plain("true")
            /\ ~CookieOf(resp[h], "part-of-the-club").HttpOnly)

\* C7: a login for an existing account with a password other than the one
\* the account was created with is answered 401, sets no cookie and leaves
\* the stored records unchanged.
C7_WrongPassword401 ==
    [][\A h \in Handlers :
          (/\ hpc[h] = "idle" /\ hpc'[h] # "idle"
           /\ req'[h].route = "login"
           /\ req'[h].username \in StoredAccounts(db)
           /\ req'[h].password # AccountPassword(req'[h].username))
          => (/\ hpc'[h] = "done"
              /\ resp'[h].status = 401
              /\ resp'[h].cookies = <<>>
              /\ db' = db)]_vars

C7_WrongPasswordTried ==
    \E h \in Handlers :
        /\ LoginDone(h)
        /\ req[h].username = "alice"
        /\ req[h].password = DEFAULT_PASSWORD
        /\ "alice" \in StoredAccounts(db)
        /\ lget[h] = "nil"
        /\ resp[h].status = 401

\* C8: once a createDefaultUser call has completed, a further call finds
\* the default user, returns nil after its existence check alone and leaves
\* the database, the default record included, unchanged.
C8_BootstrapIdempotent ==
    [][\A b \in Binders :
          (/\ bpc[b] = "contains" /\ bpc'[b] # "contains"
           /\ \E c \in Binders \ {b} : bpc[c] = "bound")
          => (/\ bpc'[b] = "bound"
              /\ bret'[b] = "nil"
              /\ db' = db
              /\ DEFAULT_USERNAME \in StoredAccounts(db'))]_vars

C8_SecondBootstrapRan ==
    /\ btx["b1"] = <<"Update", "View", "Update">>
    /\ btx["b2"] = <<"Update", "View">>
    /\ bpc["b1"] = "bound" /\ bpc["b2"] = "bound"
    /\ DEFAULT_USERNAME \in StoredAccounts(db)

\* C9: for a loaded record whose cookie block is set and decodes,
\* getSecureCookie returns the decoded key, the same for every call on
\* that record, and runs no read-write transaction.
C9_ProvisionedKeyReused ==
    \A h \in Handlers :
        (/\ LoginDone(h) /\ lget[h] = "nil"
         /\ luser[h].CookieBlock # EmptyText
         /\ B64Decode(luser[h].CookieBlock).err = "nil"
         /\ authenticate(luser[h], req[h].password))
        => (/\ lsc[h].blockKey = B64Decode(luser[h].CookieBlock).bytes
            /\ htx[h] = <<"View">>
            /\ \A g \in Handlers :
                 (/\ LoginDone(g) /\ lget[g] = "nil"
                  /\ luser[g].CookieBlock = luser[h].CookieBlock
                  /\ authenticate(luser[g], req[g].password))
                 => lsc[g] = lsc[h])

C9_TwoLoginsOneKey ==
    /\ \A h \in Handlers :
        /\ LoginDone(h)
        /\ req[h].username = "alice"
        /\ resp[h].status = 302
        /\ luser[h].CookieBlock = B64Encode(RandomBytes(CookieKeySize, 1))
        /\ HasCookie(resp[h], "session")
    /\ SessionKey(resp["h1"]) = SessionKey(resp["h2"])

\* C15: Logout, in whatever state the request arrives, sets the session
\* cookie to the empty value and the indicator cookie to false, both with a
\* negative MaxAge, answers with a redirect, and runs no transaction: the
\* database is left as it was.
C15_LogoutClearsAndRedirects ==
    [][\A h \in Handlers :
          (hpc[h] = "idle" /\ hpc'[h] # "idle" /\ req'[h].route = "logout")
          => (/\ hpc'[h] = "done"
              /\ resp'[h].status = 302
              /\ Len(resp'[h].cookies) = 2
              /\ HasCookie(resp'[h], "session")
              /\ CookieOf(resp'[h], "session").Value = Plain("")
              /\ CookieOf(resp'[h], "session").MaxAge < 0
              /\ HasCookie(resp'[h], "part-of-the-club")
              /\ CookieOf(resp'[h], "part-of-the-club").Value = Plain("false")
              /\ CookieOf(resp'[h], "part-of-the-club").MaxAge < 0
              /\ htx'[h] = <<>>
              /\ db' = db)]_vars

\* a logout answered while another request's login has just succeeded
C15_LogoutBesideLogin ==
    \E h \in Handlers, g \in Handlers :
        /\ hpc[h] = "done" /\ req[h].route = "logout"
        /\ resp[h].status = 302
        /\ resp[h].cookies = clearSession
        /\ LoginDone(g) /\ resp[g].status = 302
        /\ HasCookie(resp[g], "session")

\* the response marks the client authenticated: a session cookie with a
\* value, or the indicator cookie set to true
MarksAuthenticated(r) ==
    \E i \in DOMAIN r.cookies :
        \/ r.cookies[i].Name = "session" /\ r.cookies[i].Value # Plain("")
        \/ r.cookies[i].Name = "part-of-the-club" /\ r.cookies[i].Value = Plain("true")

\* C17: a response sets a non-empty session cookie or part-of-the-club=true
\* only in a login request in which the record of the supplied username was
\* loaded and authenticate returned true for the supplied password.
C17_SessionOnlyByLogin ==
    \A h \in Handlers :
        MarksAuthenticated(resp[h])
        => (/\ req[h].route = "login"
            /\ resp[h].status = 302
            /\ lget[h] = "nil"
            /\ luser[h].Username = req[h].username
            /\ authenticate(luser[h], req[h].password))

\* a first login (cookie key written back) that set both cookies
C17_SessionAfterFirstLogin ==
    \E h \in Handlers :
        /\ LoginDone(h)
        /\ htx[h] = <<"View", "Update">>
        /\ MarksAuthenticated(resp[h])
        /\ HasCookie(resp[h], "session")
        /\ CookieOf(resp[h], "session").Value[3] = <<req[h].username, 0>>
        /\ req[h].password = AccountPassword(req[h].username)

\* C20: createDefaultUser's save never overwrites a record that is stored
\* under the default username when the save runs, whatever ran between its
\* existence check and its save: the stored record keeps its salt, its
\* salted hash and its cookie key.
C20_BootstrapKeepsExistingRecord ==
    [][\A b \in Binders :
          (/\ bpc[b] = "save" /\ bpc'[b] # "save"
           /\ DEFAULT_USERNAME \in StoredAccounts(db))
          => (/\ DEFAULT_USERNAME \in StoredAccounts(db')
              /\ LET old == StoredUser(db, DEFAULT_USERNAME)
                     new == StoredUser(db', DEFAULT_USERNAME)
                 IN /\ new.Salt = old.Salt
                    /\ new.SaltedPassword = old.SaltedPassword
                    /\ new.CookieBlock = old.CookieBlock)]_vars

----------------------------------------------------------------------------
(* Properties of Bind under failures (specification SpecFaults) *)

\* C18: a Bind call registers the routes only after createDefaultUser
\* returned nil: a call that has registered them returned nil, after its
\* GetOrCreateKeyspace and its existence check (and its save when the record
\* was absent); a call whose GetOrCreateKeyspace or bootstrap failed returns
\* that error and registers nothing; and whenever a request is being
\* handled, a Bind call has completed and the default record is stored.
C18_RoutesAfterBootstrap ==
    /\ \A b \in Binders :
         /\ bpc[b] = "bound"
            => (/\ bret[b] = "nil"
                /\ btx[b] \in {<<"Update", "View">>, <<"Update", "View", "Update">>})
         /\ bpc[b] = "failed" <=> bret[b] \in {"TxError", "RandError", "panic"}
         /\ bpc[b] \in {"start", "contains", "save"} <=> bret[b] = "pending"
    /\ RoutesRegistered => DEFAULT_USERNAME \in DOMAIN Users(db)
    /\ \A h \in Handlers :
         hpc[h] # "idle"
         => (/\ \E b \in Binders : bpc[b] = "bound" /\ bret[b] = "nil"
             /\ DEFAULT_USERNAME \in DOMAIN Users(db))

\* one Bind call failed in its bootstrap and returned the error; a login is
\* answered on the routes the other call registered after its own bootstrap
C18_LoginAfterOneBindFailed ==
    /\ bpc["b1"] = "failed" /\ bret["b1"] = "TxError"
    /\ btx["b1"] = <<"Update", "View", "Update">>
    /\ bpc["b2"] = "bound" /\ btx["b2"] = <<"Update", "View", "Update">>
    /\ \E h \in Handlers :
         /\ LoginDone(h) /\ resp[h].status = 302
         /\ req[h].username = DEFAULT_USERNAME

----------------------------------------------------------------------------
(* Properties of the storage interfaces (specification SpecKeyspace) *)

\* C4: List on an existing partition, with the keys in any order and with
\* duplicates or keys not stored, calls back for exactly the requested keys
\* that are stored, each once, with its stored value, in ascending key
\* order, and for no other key.
C4_ListExactlyStoredRequested ==
    (ret.op = "List" /\ HasBucket(db, ret.name))
    => LET b == db[ret.name]
           calls == ret.calls
       IN /\ {calls[i][1] : i \in DOMAIN calls}
                = {ret.keys[i] : i \in DOMAIN ret.keys} \cap DOMAIN b
          /\ \A i \in DOMAIN calls : calls[i][2] = b[calls[i][1]]
          /\ \A i \in DOMAIN calls, j \in DOMAIN calls :
                i < j => BytesCompare(calls[i][1], calls[j][1]) < 0

\* an unsorted request with a key that is not stored, over a bucket with a
\* stored key the request skips
C4_ListUnsortedWithMissing ==
    /\ ret.op = "List" /\ ret.err = "nil"
    /\ ret.keys = <<(<<2>>), (<<1>>)>>
    /\ HasBucket(db, ret.name)
    /\ DOMAIN db[ret.name] = {<<1, 1>>, <<2>>}
    /\ Len(ret.calls) = 1

\* C10: DeleteKeyspace of a name without partition fails with the engine's
\* bucket-not-found error and changes nothing; the next GetOrCreateKeyspace
\* of that name, after a failed or a successful DeleteKeyspace, succeeds
\* and yields a partition with no entries.
C10_DeleteMissingThenCreate ==
    [][\A name \in KsNames :
          /\ (ClientDeleteKeyspace(name) /\ ~HasBucket(db, name))
             => (ret'.err = "ErrBucketNotFound" /\ db' = db)
          /\ (/\ ClientGetOrCreateKeyspace(name)
              /\ lastdb # <<>>
              /\ lastdb[Len(lastdb)].op = "DeleteKeyspace"
              /\ lastdb[Len(lastdb)].name = name)
             => (/\ ~HasBucket(db, name)
                 /\ ret'.err = "nil"
                 /\ name \in handles'
                 /\ HasBucket(db', name)
                 /\ db'[name] = EmptyBucket
                 /\ \A other \in DOMAIN db : db'[other] = db[other])]_vars

\* a failed DeleteKeyspace, then GetOrCreateKeyspace of the same name
C10_CreatedAfterFailedDelete ==
    /\ ret.op = "GetOrCreateKeyspace" /\ ret.err = "nil"
    /\ Len(lastdb) = 2
    /\ lastdb[1] = [op |-> "DeleteKeyspace", name |-> ret.name,
                    err |-> "ErrBucketNotFound"]
    /\ lastdb[2] = [op |-> "GetOrCreateKeyspace", name |-> ret.name, err |-> "nil"]
    /\ HasBucket(db, ret.name) /\ db[ret.name] = EmptyBucket
    /\ Entries(db) > 0

\* C11: GetOrCreateKeyspace of a name whose partition exists returns nil and
\* a handle of that name, the one earlier calls returned, and leaves every
\* partition, the named one with all its entries included, as it was.
C11_GetOrCreateIdempotent ==
    [][\A name \in KsNames :
          (ClientGetOrCreateKeyspace(name) /\ HasBucket(db, name))
          => (/\ ret'.err = "nil"
              /\ handles' = handles \cup {name}
              /\ db' = db)]_vars

\* a second GetOrCreateKeyspace of a name, on a partition that holds entries
\* written through the first handle
C11_SecondCallKeepsEntries ==
    /\ ret.op = "GetOrCreateKeyspace" /\ ret.err = "nil"
    /\ Len(lastdb) = 2
    /\ \A i \in 1..2 :
         lastdb[i] = [op |-> "GetOrCreateKeyspace", name |-> ret.name, err |-> "nil"]
    /\ ret.name \in handles
    /\ Cardinality(DOMAIN db[ret.name]) = MaxEntries

\* the call that has just returned wrote or deleted key in the partition
\* name, or created or deleted the partition
Touches(r, name, key) ==
    \/ r.op \in {"Insert", "Update", "Delete"} /\ r.name = name /\ r.keys = <<key>>
    \/ r.op \in {"GetOrCreateKeyspace", "DeleteKeyspace"} /\ r.name = name

\* C12: Get(key) returns the value of the latest Insert or Update of the key
\* that no Delete followed, and fails with ErrKeyNotFound and no value
\* otherwise; Contains(key) is true exactly where Get(key) succeeds.  As an
\* induction over the calls: right after Insert or Update of (key, value)
\* Get gives value; right after Delete it fails; no other call on the
\* partition changes what Get gives for key; and Get and Contains return
\* what the partition holds.
C12_GetLatestWrite ==
    [][\A name \in KsNames, key \in KsKeys :
          (HasBucket(db, name) /\ HasBucket(db', name))
          => LET before == KsGet(db, name, key)
                 after == KsGet(db', name, key)
                 r == ret'
             IN /\ (r.op \in {"Insert", "Update"} /\ r.name = name /\ r.keys = <<key>>)
                   => (r.err = "nil" /\ after = [value |-> r.value, err |-> "nil"])
                /\ (r.op = "Delete" /\ r.name = name /\ r.keys = <<key>>)
                   => (r.err = "nil"
                       /\ after = [value |-> NilValue, err |-> "ErrKeyNotFound"])
                /\ ~Touches(r, name, key) => after = before
                /\ (r.op = "Get" /\ r.name = name /\ r.keys = <<key>>)
                   => (r.value = before.value /\ r.err = before.err)
                /\ (r.op = "Contains" /\ r.name = name /\ r.keys = <<key>>)
                   => (r.err = "nil" /\ (r.exists <=> before.err = "nil"))
                /\ before.err \in {"nil", "ErrKeyNotFound"}
                /\ before.err = "ErrKeyNotFound" <=> before.value = NilValue
                /\ KsContains(db, name, key).exists <=> before.err = "nil"]_vars

\* Get returns a stored value from a partition filled by Insert and Update
C12_GetFoundWrittenValue ==
    /\ ret.op = "Get" /\ ret.err = "nil"
    /\ ret.value = <<"bytes", 2>>
    /\ ret.keys = <<(<<1, 1>>)>>
    /\ DOMAIN db[ret.name] = {<<1>>, <<1, 1>>}
    /\ db[ret.name][<<1>>] = <<"bytes", 1>>

\* C13: Delete on an existing partition returns nil; of a key that is not
\* stored it leaves the database unchanged; of a stored key it removes that
\* key and leaves every other entry, and every other partition, as it was.
C13_DeleteExactlyThatKey ==
    [][\A name \in KsNames, key \in KsKeys :
          (ClientDelete(name, key) /\ HasBucket(db, name))
          => (/\ ret'.err = "nil"
              /\ DOMAIN db' = DOMAIN db
              /\ \A other \in DOMAIN db \ {name} : db'[other] = db[other]
              /\ DOMAIN db'[name] = DOMAIN db[name] \ {key}
              /\ \A k \in DOMAIN db'[name] : db'[name][k] = db[name][k]
              /\ key \notin DOMAIN db[name] => db' = db)]_vars

\* Delete of a key that was not stored, on a database that holds entries
C13_AbsentKeyDeleted ==
    /\ ret.op = "Delete" /\ ret.err = "nil"
    /\ ~ret.stored
    /\ db[ret.name] # EmptyBucket
    /\ Entries(db) = MaxEntries

\* C14: List with an empty key list returns ErrEmptyKeyList, calls the
\* callback for no entry and runs no transaction, whatever the partition
\* holds and whether or not it still exists.
C14_ListEmptyKeyList ==
    (ret.op = "List" /\ ret.keys = <<>>)
    => (/\ ret.err = "ErrEmptyKeyList"
        /\ ret.calls = <<>>
        /\ ret.tx = <<>>)

\* List with no keys on a partition that holds entries
C14_ListNoKeysOnFilledPartition ==
    /\ ret.op = "List" /\ ret.keys = <<>>
    /\ ret.err = "ErrEmptyKeyList"
    /\ HasBucket(db, ret.name)
    /\ Cardinality(DOMAIN db[ret.name]) = MaxEntries

\* C16: Update is Insert: from every state, for every handle, key and
\* value, Update returns the error and leaves the database Insert would,
\* also for a key that is not stored yet; and every Update call the client
\* makes ends as the Insert of the same arguments would have.
C16_UpdateIsInsert ==
    [][\A name \in KsNames, key \in KsKeys, value \in KsValues :
          /\ KsUpdate(db, name, key, value) = KsInsert(db, name, key, value)
          /\ ClientUpdate(name, key, value)
             => (/\ db' = KsInsert(db, name, key, value).db
                 /\ ret'.err = KsInsert(db, name, key, value).err
                 /\ (HasBucket(db, name) /\ key \notin DOMAIN db[name])
                    => (/\ ret'.err = "nil"
                        /\ db'[name] = BucketPut(db[name], key, value)))]_vars

\* Update of a key that was not stored: it is stored now, with no error
C16_UpdateStoredNewKey ==
    /\ ret.op = "Update" /\ ret.err = "nil"
    /\ ~ret.stored
    /\ db[ret.name][ret.keys[1]] = ret.value
    /\ Entries(db) = MaxEntries

KeyspaceOps == {"Get", "Insert", "Update", "Delete", "Contains", "Size", "ForEach", "List"}

\* C19: a Keyspace call on a handle whose partition DeleteKeyspace removed
\* (and no GetOrCreateKeyspace recreated) returns an error or an empty
\* result; it never ends in the nil-bucket dereference.
C19_StaleHandleNeverCrashes ==
    (/\ ret.op \in KeyspaceOps
     /\ ret.name \in handles
     /\ ~HasBucket(db, ret.name))
    => ret.err # "panic"

====
